---------------------------- MODULE Spec2Model ----------------------------
(***************************************************************************)
(* Model of slice-tracker-rs: the address-keyed SliceTracker               *)
(* (src/src/slice_tracker.rs), the Slice view (src/src/slice.rs) and the   *)
(* line/column resolver compute_location (src/src/file_tracker.rs).        *)
(*                                                                         *)
(* A slice &B is a record [ptr, len] over a flat byte-addressed memory     *)
(* `mem`; the BTreeMap<*const u8, Entry> is a function from start          *)
(* addresses to entries.  Option<T> is the set with at most one element    *)
(* (None == {}, Some(x) == {x}); Result<&B, ()> is a tagged record.        *)
(***************************************************************************)
EXTENDS Integers, Sequences, FiniteSets, TLC

VARIABLES
    map,        \* SliceTracker.map: start address -> Entry
    panicked,   \* TRUE once insert_unsafe reached unreachable!()
    last,       \* the last call on the tracker: operation, arguments, return value
    prev,       \* the value of map when the last call began
    mem,        \* the bytes of the address space
    loc,        \* the last call of compute_location: arguments and return value
    pending     \* the insert that is under way, when its steps are taken one by one

vars == <<map, panicked, last, prev, mem, loc, pending>>

-----------------------------------------------------------------------------
(* Bounds *)

\* Addresses are 0..MaxAddr; a slice lies in [0, MaxAddr).
MaxAddr == 3

\* The whole slices given to compute_location have at most MaxLen bytes.
MaxLen == 4

\* Where lookups run between the steps of an insert, slices lie in [0, StepAddr).
StepAddr == 2

-----------------------------------------------------------------------------
(* Values *)

Addr == 0..MaxAddr

\* M: two distinguishable metadata values
Metas == {"mA", "mB"}

\* b'\n', b'\r' and b'a'
NL == 10
CR == 13
LetterA == 97

Bytes == {NL, CR, LetterA}

\* Every slice of the addresses 0..n, empty ones included.
SlicesOf(n) == {s \in [ptr : 0..n, len : 0..n] : s.ptr + s.len <= n}

Slices == SlicesOf(MaxAddr)

None == {}

Some(x) == {x}

Ok(x) == [tag |-> "Ok", val |-> x]

NoSlice == [ptr |-> 0, len |-> 0]

Err == [tag |-> "Err", val |-> NoSlice]

Max(S) == CHOOSE x \in S : \A y \in S : y <= x

-----------------------------------------------------------------------------
(* slice.rs: the Slice trait *)

start_ptr(data) == data.ptr

len(data) == data.len

is_empty(data) == len(data) = 0

end_ptr(data) == start_ptr(data) + len(data)

-----------------------------------------------------------------------------
(* slice_tracker.rs *)

Entry(data, meta) == [data |-> data, meta |-> meta]

\* SliceTracker::new(): an empty BTreeMap
new == <<>>

\* Mutant: the bound is Excluded instead of Included.
first_entry_at_or_before_excluded(m, bound) ==
    LET keys == {k \in DOMAIN m : k < bound}
    IN  IF keys = {} THEN None ELSE Some(m[Max(keys)])

\* Mutant: next() instead of next_back(), the first entry of the range.
first_entry_at_or_before_front(m, bound) ==
    LET keys == {k \in DOMAIN m : k <= bound}
    IN  IF keys = {} THEN None ELSE Some(m[CHOOSE k \in keys : \A j \in keys : k <= j])

\* map.range((Unbounded, Included(bound))).next_back()
first_entry_at_or_before(m, bound) ==
    LET keys == {k \in DOMAIN m : k <= bound}
    IN  IF keys = {} THEN None ELSE Some(m[Max(keys)])

\* map.range((Unbounded, Excluded(bound))).next_back()
first_entry_before(m, bound) ==
    LET keys == {k \in DOMAIN m : k < bound}
    IN  IF keys = {} THEN None ELSE Some(m[Max(keys)])

\* Mutant: only the start of the query is compared with the end of the entry.
get_entry_start_only(m, data) ==
    IF is_empty(data) THEN None
    ELSE LET found == first_entry_at_or_before(m, start_ptr(data))
         IN  IF found = None THEN None
             ELSE LET entry == CHOOSE e \in found : TRUE
                  IN  IF start_ptr(data) < end_ptr(entry.data)
                      THEN Some(entry)
                      ELSE None

\* Mutant: no early return for an empty query.
get_entry_no_empty_check(m, data) ==
    LET found == first_entry_at_or_before(m, start_ptr(data))
    IN  IF found = None THEN None
        ELSE LET entry == CHOOSE e \in found : TRUE
             IN  IF end_ptr(data) <= end_ptr(entry.data)
                 THEN Some(entry)
                 ELSE None

get_entry(m, data) ==
    IF is_empty(data) THEN None
    ELSE LET found == first_entry_at_or_before(m, start_ptr(data))
         IN  IF found = None THEN None
             ELSE LET entry == CHOOSE e \in found : TRUE
                  IN  IF end_ptr(data) <= end_ptr(entry.data)
                      THEN Some(entry)
                      ELSE None

\* Mutant: the predecessor is searched from the start of the new slice.
has_overlap_from_start(m, data) ==
    IF is_empty(data) THEN FALSE
    ELSE LET found == first_entry_at_or_before(m, start_ptr(data))
         IN  IF found = None THEN FALSE
             ELSE LET conflict == CHOOSE e \in found : TRUE
                  IN  end_ptr(conflict.data) > start_ptr(data)

\* Mutant: a conflict only when the new slice lies within a tracked one.
has_overlap_is_tracked(m, data) == get_entry(m, data) # None

\* Mutant: >= instead of >, touching slices conflict.
has_overlap_touching(m, data) ==
    IF is_empty(data) THEN FALSE
    ELSE LET found == first_entry_before(m, end_ptr(data))
         IN  IF found = None THEN FALSE
             ELSE LET conflict == CHOOSE e \in found : TRUE
                  IN  end_ptr(conflict.data) >= start_ptr(data)

\* Mutant: the end of the conflict is compared with the end of the data.
has_overlap_ends_compared(m, data) ==
    IF is_empty(data) THEN FALSE
    ELSE LET found == first_entry_before(m, end_ptr(data))
         IN  IF found = None THEN FALSE
             ELSE LET conflict == CHOOSE e \in found : TRUE
                  IN  end_ptr(conflict.data) > end_ptr(data)

has_overlap(m, data) ==
    IF is_empty(data) THEN FALSE
    ELSE LET found == first_entry_before(m, end_ptr(data))
         IN  IF found = None THEN FALSE
             ELSE LET conflict == CHOOSE e \in found : TRUE
                  IN  end_ptr(conflict.data) > start_ptr(data)

\* Mutant: the entry is keyed by the end of the data.
insert_unsafe_keyed_by_end(m, data, meta) ==
    IF end_ptr(data) \in DOMAIN m
    THEN [map |-> m, ret |-> Err, panic |-> TRUE]
    ELSE [map |-> m @@ (end_ptr(data) :> Entry(data, meta)),
          ret |-> Ok(data), panic |-> FALSE]

\* Mutant: an Occupied entry is replaced, and nothing is fatal.
insert_unsafe_replaces(m, data, meta) ==
    [map |-> [k \in DOMAIN m \cup {start_ptr(data)} |->
                 IF k = start_ptr(data) THEN Entry(data, meta) ELSE m[k]],
     ret |-> Ok(data), panic |-> FALSE]

\* The map, the returned reference and whether unreachable!() was hit.
insert_unsafe(m, data, meta) ==
    IF start_ptr(data) \in DOMAIN m
    THEN [map |-> m, ret |-> Err, panic |-> TRUE]
    ELSE [map |-> m @@ (start_ptr(data) :> Entry(data, meta)),
          ret |-> Ok(data), panic |-> FALSE]

\* Mutant: empty data is not rejected.
insert_no_empty_check(m, data, meta) ==
    IF has_overlap(m, data)
    THEN [map |-> m, ret |-> Err, panic |-> FALSE]
    ELSE insert_unsafe(m, data, meta)

\* Mutant: the overlap check is left out.
insert_no_overlap_check(m, data, meta) ==
    IF is_empty(data)
    THEN [map |-> m, ret |-> Err, panic |-> FALSE]
    ELSE insert_unsafe(m, data, meta)

insert(m, data, meta) ==
    IF is_empty(data) \/ has_overlap(m, data)
    THEN [map |-> m, ret |-> Err, panic |-> FALSE]
    ELSE insert_unsafe(m, data, meta)

is_tracked(m, data) == get_entry(m, data) # None

get(m, data) == {[data |-> entry.data, meta |-> entry.meta] : entry \in get_entry(m, data)}

metadata(m, data) == {entry.meta : entry \in get_entry(m, data)}

whole_slice(m, data) == {entry.data : entry \in get_entry(m, data)}

-----------------------------------------------------------------------------
(* The tracker as a state machine *)

\* Two slices have a byte in common.
SharesByte(a, b) ==
    \E x \in Addr : /\ a.ptr <= x /\ x < a.ptr + a.len
                    /\ b.ptr <= x /\ x < b.ptr + b.len

\* A Cow::Owned buffer is a live allocation of its own: when it is not empty
\* its bytes belong to no other live slice, tracked ones included.
Fresh(m, data) == \A k \in DOMAIN m : ~SharesByte(m[k].data, data)

Call(op, data, meta, r) ==
    /\ map' = r.map
    /\ panicked' = r.panic
    /\ last' = [op |-> op, args |-> <<data, meta>>, ret |-> r.ret]
    /\ prev' = map
    /\ UNCHANGED <<mem, loc, pending>>

Query(op, data, ret) ==
    /\ last' = [op |-> op, args |-> <<data>>, ret |-> ret]
    /\ prev' = map
    /\ UNCHANGED <<map, panicked, mem, loc, pending>>

\* pool.insert(Cow::Borrowed(..) | Cow::Owned(..), meta)
\* (a Cow::Owned argument is one of the Fresh slices)
Insert ==
    /\ ~panicked
    /\ \E data \in Slices, meta \in Metas :
        Call("insert", data, meta, insert(map, data, meta))

insert_borrow(data, meta) == Call("insert_borrow", data, meta, insert(map, data, meta))

InsertBorrow ==
    /\ ~panicked
    /\ \E data \in Slices, meta \in Metas : insert_borrow(data, meta)

insert_move(data, meta) == Call("insert_move", data, meta, insert(map, data, meta))

InsertMove ==
    /\ ~panicked
    /\ \E data \in Slices, meta \in Metas :
        /\ Fresh(map, data)
        /\ insert_move(data, meta)

IsTracked ==
    /\ ~panicked
    /\ \E data \in Slices : Query("is_tracked", data, is_tracked(map, data))

Get ==
    /\ ~panicked
    /\ \E data \in Slices : Query("get", data, get(map, data))

Metadata ==
    /\ ~panicked
    /\ \E data \in Slices : Query("metadata", data, metadata(map, data))

WholeSlice ==
    /\ ~panicked
    /\ \E data \in Slices : Query("whole_slice", data, whole_slice(map, data))

NoCall == [op |-> "new", args |-> <<>>, ret |-> None]

NoLoc == [subslice |-> NoSlice, data |-> NoSlice, ret |-> <<0, 0>>, examined |-> <<>>]

\* No insert is under way.
Idle == [pc |-> "idle"]

Init ==
    /\ map = new
    /\ panicked = FALSE
    /\ last = NoCall
    /\ prev = new
    /\ mem = [a \in 0..(MaxAddr - 1) |-> LetterA]
    /\ loc = NoLoc
    /\ pending = Idle

Next ==
    \/ Insert
    \/ InsertBorrow
    \/ InsertMove
    \/ IsTracked
    \/ Get
    \/ Metadata
    \/ WholeSlice

Spec == Init /\ [][Next]_vars

-----------------------------------------------------------------------------
(* file_tracker.rs: compute_location *)

\* The bytes of a slice in a memory, as a sequence.
as_bytes_of(memory, data) == [i \in 1..len(data) |-> memory[start_ptr(data) + i - 1]]

\* data.as_bytes(): the bytes of a slice, as a sequence
as_bytes(data) == as_bytes_of(mem, data)

\* memchr::memrchr_iter(needle, haystack): the 0-based positions of needle in
\* haystack, from the last to the first.
\* Mutant: b'\r' is taken for a line break as well.
RECURSIVE memrchr_iter_cr(_, _)
memrchr_iter_cr(needle, haystack) ==
    IF Len(haystack) = 0 THEN <<>>
    ELSE LET n == Len(haystack)
             rest == memrchr_iter_cr(needle, SubSeq(haystack, 1, n - 1))
         IN  IF haystack[n] = needle \/ haystack[n] = CR THEN <<n - 1>> \o rest ELSE rest

RECURSIVE memrchr_iter(_, _)
memrchr_iter(needle, haystack) ==
    IF Len(haystack) = 0 THEN <<>>
    ELSE LET n == Len(haystack)
             rest == memrchr_iter(needle, SubSeq(haystack, 1, n - 1))
         IN  IF haystack[n] = needle THEN <<n - 1>> \o rest ELSE rest

\* Mutant: count() + 1 instead of count() + 2.
compute_location_line_off_by_one(subslice, data) ==
    LET offset == start_ptr(subslice) - start_ptr(data)
        line_breaks == memrchr_iter(NL, SubSeq(as_bytes(data), 1, offset))
    IN  IF line_breaks = <<>>
        THEN <<1, offset + 1>>
        ELSE <<Len(Tail(line_breaks)) + 1, offset - Head(line_breaks)>>

\* Mutant: the byte at the offset is scanned too, &data[..=offset].
compute_location_of_inclusive(memory, subslice, data) ==
    LET offset == start_ptr(subslice) - start_ptr(data)
        upto == IF offset < len(data) THEN offset + 1 ELSE offset
        line_breaks == memrchr_iter(NL, SubSeq(as_bytes_of(memory, data), 1, upto))
    IN  IF line_breaks = <<>>
        THEN <<1, offset + 1>>
        ELSE <<Len(Tail(line_breaks)) + 2, offset - Head(line_breaks)>>

\* compute_location on the bytes of a given memory.
compute_location_of(memory, subslice, data) ==
    LET offset == start_ptr(subslice) - start_ptr(data)
        line_breaks == memrchr_iter(NL, SubSeq(as_bytes_of(memory, data), 1, offset))
    IN  IF line_breaks = <<>>
        THEN <<1, offset + 1>>
        ELSE <<Len(Tail(line_breaks)) + 2, offset - Head(line_breaks)>>

compute_location(subslice, data) == compute_location_of(mem, subslice, data)

\* The positions hi, hi - 1, .., lo, in the order a backward scan reads them.
Down(hi, lo) == [k \in 1..(hi - lo + 1) |-> hi - k + 1]

\* line_breaks.next(), the iterator having haystack[..upto] left to scan: the
\* position it yields, the positions it examined and what is left to scan.
memrchr_iter_next(needle, haystack, upto) ==
    LET hits == {i \in 0..(upto - 1) : haystack[i + 1] = needle}
    IN  IF hits = {}
        THEN [item |-> None, examined |-> Down(upto - 1, 0), upto |-> 0]
        ELSE [item |-> Some(Max(hits)), examined |-> Down(upto - 1, Max(hits)),
              upto |-> Max(hits)]

\* line_breaks.count(): next() until None; the positions examined on the way.
RECURSIVE memrchr_iter_count(_, _, _)
memrchr_iter_count(needle, haystack, upto) ==
    LET r == memrchr_iter_next(needle, haystack, upto)
    IN  IF r.item = None
        THEN [n |-> 0, examined |-> r.examined]
        ELSE LET rest == memrchr_iter_count(needle, haystack, r.upto)
             IN  [n |-> rest.n + 1, examined |-> r.examined \o rest.examined]

\* Mutant: count() is not called, the scan ends at the first line break found.
compute_location_examined_until_line_break(subslice, data) ==
    LET offset == start_ptr(subslice) - start_ptr(data)
        haystack == SubSeq(as_bytes(data), 1, offset)
    IN  memrchr_iter_next(NL, haystack, offset).examined

\* The positions of data that compute_location examines, in the order of the
\* reads: those of line_breaks.next() and, in the Some arm, of count().
compute_location_examined(subslice, data) ==
    LET offset == start_ptr(subslice) - start_ptr(data)
        haystack == SubSeq(as_bytes(data), 1, offset)
        first == memrchr_iter_next(NL, haystack, offset)
    IN  IF first.item = None
        THEN first.examined
        ELSE first.examined \o memrchr_iter_count(NL, haystack, first.upto).examined

\* compute_location(subslice, data) for a sub-slice of a non-empty whole slice
ComputeLocation ==
    /\ \E data \in SlicesOf(MaxLen), subslice \in SlicesOf(MaxLen) :
        /\ ~is_empty(data)
        /\ start_ptr(data) <= start_ptr(subslice)
        /\ end_ptr(subslice) <= end_ptr(data)
        /\ loc' = [subslice |-> subslice, data |-> data,
                   ret |-> compute_location(subslice, data),
                   examined |-> compute_location_examined(subslice, data)]
    /\ UNCHANGED <<map, panicked, last, prev, mem, pending>>

InitLoc ==
    /\ map = new
    /\ panicked = FALSE
    /\ last = NoCall
    /\ prev = new
    /\ mem \in [0..(MaxLen - 1) -> Bytes]
    /\ loc = NoLoc
    /\ pending = Idle

NextLoc == ComputeLocation

SpecLoc == InitLoc /\ [][NextLoc]_vars

-----------------------------------------------------------------------------
(* file_tracker.rs: Source, SourceLocation and the FileTracker of str *)

\* enum Source
Source_Unknown == [tag |-> "Unknown"]

Source_ExpandedFrom(sources) == [tag |-> "ExpandedFrom", ref |-> sources]

Source_File(path) == [tag |-> "File", path |-> path]

\* enum SourceLocation and struct FileLocation
SourceLocation_Unknown == [tag |-> "Unknown"]

SourceLocation_ExpandedFrom(sources) == [tag |-> "ExpandedFrom", ref |-> sources]

FileLocation(path, line, column) == [path |-> path, line |-> line, column |-> column]

SourceLocation_File(location) == [tag |-> "File", file |-> location]

\* The paths given to insert_file.
Paths == {"a.txt", "b.txt", "empty.txt", "missing.txt"}

\* File::open and read_to_string on the files of the model's file system:
\* b"a\na", b"\n\r", an empty file and one that cannot be opened.
read_text_file(path) ==
    CASE path = "a.txt" -> [ok |-> TRUE, data |-> <<LetterA, NL, LetterA>>]
      [] path = "b.txt" -> [ok |-> TRUE, data |-> <<NL, CR>>]
      [] path = "empty.txt" -> [ok |-> TRUE, data |-> <<>>]
      [] OTHER -> [ok |-> FALSE, err |-> "NotFound"]

IoErr(what) == [tag |-> "Err", val |-> what]

\* Mutant: the empty String is handed to insert_unsafe.
insert_file_no_empty_check(m, path, ptr) ==
    LET read == read_text_file(path)
    IN  IF ~read.ok
        THEN [map |-> m, ret |-> IoErr(read.err), panic |-> FALSE]
        ELSE insert_unsafe(m, [ptr |-> ptr, len |-> Len(read.data)], Source_File(path))

\* insert_file(path), the String that was read being allocated at ptr.
insert_file(m, path, ptr) ==
    LET read == read_text_file(path)
    IN  IF ~read.ok
        THEN [map |-> m, ret |-> IoErr(read.err), panic |-> FALSE]
        ELSE LET data == [ptr |-> ptr, len |-> Len(read.data)]
             IN  IF is_empty(data)
                 THEN [map |-> m, ret |-> IoErr("UnexpectedEof: file is empty"),
                       panic |-> FALSE]
                 ELSE insert_unsafe(m, data, Source_File(path))

\* Mutant: the location is computed within the sub-slice itself.
get_source_location_self(m, data) ==
    LET found == get(m, data)
    IN  IF found = None THEN None
        ELSE LET r == CHOOSE x \in found : TRUE
                 source == r.meta
             IN  Some(CASE source.tag = "Unknown" -> SourceLocation_Unknown
                        [] source.tag = "ExpandedFrom" ->
                               SourceLocation_ExpandedFrom(source.ref)
                        [] source.tag = "File" ->
                               LET lc == compute_location(data, data)
                               IN  SourceLocation_File(
                                       FileLocation(source.path, lc[1], lc[2])))

\* Mutant: an ExpandedFrom source is followed to the file of its parent.
get_source_location_flatten(m, data) ==
    LET found == get(m, data)
    IN  IF found = None THEN None
        ELSE LET r == CHOOSE x \in found : TRUE
                 whole == r.data
                 source == r.meta
             IN  Some(CASE source.tag = "Unknown" -> SourceLocation_Unknown
                        [] source.tag = "ExpandedFrom" ->
                               LET up == get(m, source.ref)
                               IN  IF up # None /\ (CHOOSE x \in up : TRUE).meta.tag = "File"
                                   THEN LET u == CHOOSE x \in up : TRUE
                                            lc == compute_location(source.ref, u.data)
                                        IN  SourceLocation_File(
                                                FileLocation(u.meta.path, lc[1], lc[2]))
                                   ELSE SourceLocation_ExpandedFrom(source.ref)
                        [] source.tag = "File" ->
                               LET lc == compute_location(data, whole)
                               IN  SourceLocation_File(
                                       FileLocation(source.path, lc[1], lc[2])))

\* Mutant: an Unknown source gives None.
get_source_location_unknown_none(m, data) ==
    LET found == get(m, data)
    IN  IF found = None THEN None
        ELSE LET r == CHOOSE x \in found : TRUE
                 whole == r.data
                 source == r.meta
             IN  CASE source.tag = "Unknown" -> None
                   [] source.tag = "ExpandedFrom" ->
                          Some(SourceLocation_ExpandedFrom(source.ref))
                   [] source.tag = "File" ->
                          LET lc == compute_location(data, whole)
                          IN  Some(SourceLocation_File(
                                       FileLocation(source.path, lc[1], lc[2])))

get_source_location(m, data) ==
    LET found == get(m, data)
    IN  IF found = None THEN None
        ELSE LET r == CHOOSE x \in found : TRUE
                 whole == r.data
                 source == r.meta
             IN  Some(CASE source.tag = "Unknown" -> SourceLocation_Unknown
                        [] source.tag = "ExpandedFrom" ->
                               SourceLocation_ExpandedFrom(source.ref)
                        [] source.tag = "File" ->
                               LET lc == compute_location(data, whole)
                               IN  SourceLocation_File(
                                       FileLocation(source.path, lc[1], lc[2])))

\* The sources handed to the checked inserts: Unknown, or ExpandedFrom a whole
\* slice that is tracked.
Sources(m) == {Source_Unknown} \cup {Source_ExpandedFrom(m[k].data) : k \in DOMAIN m}

\* The memory after the bytes were written at ptr.
Written(memory, ptr, bytes) ==
    [a \in DOMAIN memory |->
        IF ptr <= a /\ a < ptr + Len(bytes) THEN bytes[a - ptr + 1] ELSE memory[a]]

\* pool.insert_file(path): the String read from the file is a new allocation
\* at some address ptr, disjoint from the tracked slices.
InsertFile ==
    /\ ~panicked
    /\ \E path \in Paths, ptr \in Addr :
        LET read == read_text_file(path)
            bytes == IF read.ok THEN read.data ELSE <<>>
            buffer == [ptr |-> ptr, len |-> Len(bytes)]
            r == insert_file(map, path, ptr)
        IN  /\ buffer \in Slices
            /\ Fresh(map, buffer)
            /\ map' = r.map
            /\ panicked' = r.panic
            /\ last' = [op |-> "insert_file", args |-> <<path, ptr>>, ret |-> r.ret]
            /\ prev' = map
            /\ mem' = Written(mem, ptr, bytes)
            /\ UNCHANGED <<loc, pending>>

\* pool.insert(data, source); insert_borrow and insert_move are this call with
\* Cow::Borrowed and Cow::Owned data.
FileInsert ==
    /\ ~panicked
    /\ \E data \in Slices, source \in Sources(map) :
        Call("insert", data, source, insert(map, data, source))

GetSourceLocation ==
    /\ ~panicked
    /\ \E data \in Slices :
        Query("get_source_location", data, get_source_location(map, data))

NextFile ==
    \/ InsertFile
    \/ FileInsert
    \/ GetSourceLocation

SpecFile == Init /\ [][NextFile]_vars

-----------------------------------------------------------------------------
(* slice_tracker.rs: insert taken step by step, with lookups in between *)

\* The tracker is not Sync (UnsafeCell, raw pointer keys): one thread makes
\* every call.  A lookup runs between the steps of an insert when it is made
\* from within the insert, by the caller's meta.into() (line 74).  The steps
\* are the check of line 85, map_mut().entry() of line 70 and the store of
\* lines 71-77.

StepSlices == SlicesOf(StepAddr)

\* insert, line 85: reject, or go on to insert_unsafe
InsertCheck ==
    /\ ~panicked
    /\ pending.pc = "idle"
    /\ \E data \in StepSlices, meta \in Metas :
        IF is_empty(data) \/ has_overlap(map, data)
        THEN UNCHANGED pending
        ELSE pending' = [pc |-> "checked", data |-> data, meta |-> meta, base |-> map]
    /\ UNCHANGED <<map, panicked, last, prev, mem, loc>>

\* insert_unsafe, line 70 and line 78: the entry of the key, Vacant or Occupied
InsertEntry ==
    /\ ~panicked
    /\ pending.pc = "checked"
    /\ IF start_ptr(pending.data) \in DOMAIN map
       THEN panicked' = TRUE /\ UNCHANGED pending
       ELSE pending' = [pending EXCEPT !.pc = "vacant"] /\ UNCHANGED panicked
    /\ UNCHANGED <<map, last, prev, mem, loc>>

\* insert_unsafe, lines 71-77: the Vacant entry is filled and insert returns
InsertStore ==
    /\ ~panicked
    /\ pending.pc = "vacant"
    /\ LET r == insert_unsafe(map, pending.data, pending.meta)
       IN  map' = r.map /\ panicked' = r.panic
    /\ pending' = Idle
    /\ UNCHANGED <<last, prev, mem, loc>>

\* pool.get(data), at any point: before, within or after an insert
Lookup ==
    /\ ~panicked
    /\ \E data \in StepSlices :
        last' = [op |-> "get", args |-> <<data>>, ret |-> get(map, data),
                 during |-> pending.pc # "idle"]
    /\ prev' = map
    /\ UNCHANGED <<map, panicked, mem, loc, pending>>

NextStep ==
    \/ InsertCheck
    \/ InsertEntry
    \/ InsertStore
    \/ Lookup

SpecStep == Init /\ [][NextStep]_vars

-----------------------------------------------------------------------------
(* slice_tracker.rs: two inserts whose calls of has_overlap and of
   insert_unsafe interleave *)

\* insert calls has_overlap (line 85) and then insert_unsafe (line 88), and
\* holds no lock between the two.  Here two callers share one tracker without
\* synchronisation between their inserts; each call of has_overlap and of
\* insert_unsafe runs as a whole.  pending holds one record per caller.

Writers == {1, 2}

\* insert, line 85, by caller w: reject, or go on to insert_unsafe
RaceCheck(w) ==
    /\ ~panicked
    /\ pending[w].pc = "idle"
    /\ \E data \in StepSlices, meta \in Metas :
        IF is_empty(data) \/ has_overlap(map, data)
        THEN UNCHANGED pending
        ELSE pending' = [pending EXCEPT ![w] =
                [pc |-> "checked", data |-> data, meta |-> meta, base |-> map]]
    /\ UNCHANGED <<map, panicked, last, prev, mem, loc>>

\* insert, line 88, by caller w: insert_unsafe, and insert returns
RaceStore(w) ==
    /\ ~panicked
    /\ pending[w].pc = "checked"
    /\ LET r == insert_unsafe(map, pending[w].data, pending[w].meta)
       IN  map' = r.map /\ panicked' = r.panic
    /\ pending' = [pending EXCEPT ![w] = Idle]
    /\ prev' = map
    /\ UNCHANGED <<last, mem, loc>>

InitRace ==
    /\ map = new
    /\ panicked = FALSE
    /\ last = NoCall
    /\ prev = new
    /\ mem = [a \in 0..(MaxAddr - 1) |-> LetterA]
    /\ loc = NoLoc
    /\ pending = [w \in Writers |-> Idle]

NextRace ==
    \/ \E w \in Writers : RaceCheck(w)
    \/ \E w \in Writers : RaceStore(w)

SpecRace == InitRace /\ [][NextRace]_vars

-----------------------------------------------------------------------------
(* slice_tracker.rs: insert_unsafe called by the user *)

\* unsafe { pool.insert_unsafe(data, meta) }: nothing is checked before
InsertUnsafe ==
    /\ ~panicked
    /\ \E data \in StepSlices, meta \in Metas :
        Call("insert_unsafe", data, meta, insert_unsafe(map, data, meta))

NextUnsafe == InsertUnsafe

SpecUnsafe == Init /\ [][NextUnsafe]_vars

-----------------------------------------------------------------------------
(* slice_tracker.rs: a run of inserts on a new tracker *)

\* pool.insert(data, meta) for each <<data, meta>> of requests, in order:
\* the map, the tag of each result and whether unreachable!() was hit.
RECURSIVE inserts(_, _)
inserts(m, requests) ==
    IF requests = <<>>
    THEN [map |-> m, tags |-> <<>>, panic |-> FALSE]
    ELSE LET r == insert(m, Head(requests)[1], Head(requests)[2])
         IN  IF r.panic
             THEN [map |-> r.map, tags |-> <<r.ret.tag>>, panic |-> TRUE]
             ELSE LET rest == inserts(r.map, Tail(requests))
                  IN  [map |-> rest.map, tags |-> <<r.ret.tag>> \o rest.tags,
                       panic |-> rest.panic]

\* The runs of at most MaxAddr inserts, of slices that are not empty.
Requests ==
    UNION {[1..n -> {data \in Slices : ~is_empty(data)} \X Metas] : n \in 0..MaxAddr}

\* let pool = SliceTracker::new(); then the inserts of a run
InsertAll ==
    /\ ~panicked
    /\ last.op = "new"
    /\ \E requests \in Requests :
        LET r == inserts(new, requests)
        IN  /\ map' = r.map
            /\ panicked' = r.panic
            /\ last' = [op |-> "inserts", args |-> <<requests>>, ret |-> r.tags]
    /\ prev' = new
    /\ UNCHANGED <<mem, loc, pending>>

NextOrder == InsertAll

SpecOrder == Init /\ [][NextOrder]_vars

-----------------------------------------------------------------------------
(* Properties *)

InsertOps == {"insert", "insert_borrow", "insert_move"}

\* The last call was an insert of one of the three kinds.
LastIsInsert == last.op \in InsertOps

LastData == last.args[1]

LastMeta == last.args[2]

Entries(m) == {m[k] : k \in DOMAIN m}

NonEmpty(s) == s.len > 0

\* Slice q lies within slice w: w.start <= q.start and q.end <= w.end.
Within(q, w) == w.ptr <= q.ptr /\ q.ptr + q.len <= w.ptr + w.len

\* Slices a and b are memory-adjacent: a ends where b starts.
Touches(a, b) == a.ptr + a.len = b.ptr

Resolved(e) == [data |-> e.data, meta |-> e.meta]

\* C1: every tracked entry is non-empty, no two entries share a start address,
\* and no two entries' half-open intervals overlap, after any sequence of
\* insert, insert_borrow and insert_move calls.
C1_Disjoint ==
    /\ \A k \in DOMAIN map : NonEmpty(map[k].data) /\ map[k].data.ptr = k
    /\ \A e1, e2 \in Entries(map) :
        e1 # e2 => e1.data.ptr # e2.data.ptr /\ ~SharesByte(e1.data, e2.data)

\* Two memory-adjacent entries are tracked and the last insert failed.
C1_Witness ==
    /\ LastIsInsert /\ last.ret = Err
    /\ \E e1, e2 \in Entries(map) : Touches(e1.data, e2.data)

\* C2: a non-empty query lying within a tracked entry E resolves, by get,
\* whole_slice and metadata, to E's full extent and E's metadata, and E is the
\* only entry containing the query.
C2_LookupContained ==
    \A q \in Slices : \A e \in Entries(map) :
        (NonEmpty(q) /\ Within(q, e.data)) =>
            /\ get(map, q) = Some(Resolved(e))
            /\ whole_slice(map, q) = Some(e.data)
            /\ metadata(map, q) = Some(e.meta)
            /\ \A e2 \in Entries(map) : Within(q, e2.data) => e2 = e

\* get was called with a proper sub-slice of the second of two entries and
\* returned that entry.
C2_Witness ==
    /\ last.op = "get"
    /\ \E e1, e2 \in Entries(map) :
        /\ e1.data.ptr < e2.data.ptr
        /\ Within(LastData, e2.data) /\ LastData # e2.data
        /\ last.ret = Some(Resolved(e2))

\* C3: inserting a non-empty slice that shares a byte with a tracked entry
\* returns an error and leaves the tracker unchanged: same entries, and every
\* query resolves as before.
C3_OverlapRejected ==
    (/\ LastIsInsert
     /\ NonEmpty(LastData)
     /\ \E e \in Entries(prev) : SharesByte(e.data, LastData)) =>
        /\ last.ret = Err
        /\ ~panicked
        /\ map = prev
        /\ \A q \in Slices : get(map, q) = get(prev, q)

\* A failed insert of a slice that strictly contains a tracked entry and
\* starts before it.
C3_Witness ==
    /\ LastIsInsert /\ last.ret = Err
    /\ \E e \in Entries(prev) :
        /\ Within(e.data, LastData)
        /\ LastData.ptr < e.data.ptr
        /\ e.data.ptr + e.data.len < LastData.ptr + LastData.len

\* C4: inserting a zero-length slice returns an error in every state, whatever
\* its address, and leaves the tracker unchanged.
C4_EmptyInsertRejected ==
    (LastIsInsert /\ is_empty(LastData)) =>
        /\ last.ret = Err
        /\ ~panicked
        /\ map = prev

\* A failed insert of an empty slice whose address is free and lies between
\* two tracked entries' addresses.
C4_Witness ==
    /\ last.op = "insert_borrow" /\ is_empty(LastData) /\ last.ret = Err
    /\ \A e \in Entries(map) : ~Within(LastData, e.data)
    /\ \E e \in Entries(map) : e.data.ptr > LastData.ptr

\* C5: a non-empty query that is not within a single tracked entry is not
\* tracked: is_tracked is false and get, whole_slice and metadata return None.
C5_LookupNotContained ==
    \A q \in Slices :
        (NonEmpty(q) /\ ~\E e \in Entries(map) : Within(q, e.data)) =>
            /\ ~is_tracked(map, q)
            /\ get(map, q) = None
            /\ whole_slice(map, q) = None
            /\ metadata(map, q) = None

\* is_tracked was called with a slice straddling two memory-adjacent entries
\* and returned false.
C5_Witness ==
    /\ last.op = "is_tracked" /\ last.ret = FALSE
    /\ \E e1, e2 \in Entries(map) :
        /\ Touches(e1.data, e2.data)
        /\ LastData.ptr = e1.data.ptr
        /\ LastData.ptr + LastData.len = e2.data.ptr + e2.data.len

\* C6: two disjoint non-empty slices A and B inserted, in either order, into
\* an empty tracker are both accepted, and get on every non-empty sub-slice of
\* A returns A's full extent with A's metadata, never B's.
C6_TwoDisjoint ==
    (LastIsInsert /\ NonEmpty(LastData)) =>
        /\ prev = new =>
            /\ last.ret = Ok(LastData)
            /\ Entries(map) = {Entry(LastData, LastMeta)}
        /\ \A a \in Entries(prev) :
            (Entries(prev) = {a} /\ ~SharesByte(a.data, LastData)) =>
                /\ last.ret = Ok(LastData)
                /\ Entries(map) = {a, Entry(LastData, LastMeta)}
                /\ \A q \in Slices :
                    /\ (NonEmpty(q) /\ Within(q, a.data)) =>
                            get(map, q) = Some(Resolved(a))
                    /\ (NonEmpty(q) /\ Within(q, LastData)) =>
                            get(map, q) = Some([data |-> LastData, meta |-> LastMeta])

\* The second of two inserts into an empty tracker succeeded; its slice lies
\* below the first one, touches it, and carries the other metadata.
C6_Witness ==
    /\ LastIsInsert /\ last.ret = Ok(LastData)
    /\ \E a \in Entries(prev) :
        /\ Entries(prev) = {a}
        /\ Touches(LastData, a.data)
        /\ a.meta # LastMeta
        /\ Cardinality(DOMAIN map) = 2

\* C7: inserting a non-empty slice that shares no byte with any tracked entry
\* always succeeds, also when it touches an entry on either side: a non-empty
\* insert fails only because of a real overlap.
C7_DisjointAccepted ==
    (LastIsInsert /\ NonEmpty(LastData)) =>
        /\ (\A e \in Entries(prev) : ~SharesByte(e.data, LastData)) =>
            /\ last.ret = Ok(LastData)
            /\ ~panicked
            /\ DOMAIN map = DOMAIN prev \cup {LastData.ptr}
            /\ map[LastData.ptr] = Entry(LastData, LastMeta)
        /\ last.ret = Err => \E e \in Entries(prev) : SharesByte(e.data, LastData)

\* A successful insert_move of a slice that fills the gap between two tracked
\* entries, touching both.
C7_Witness ==
    /\ last.op = "insert_move" /\ last.ret = Ok(LastData)
    /\ \E e1, e2 \in Entries(prev) :
        Touches(e1.data, LastData) /\ Touches(LastData, e2.data)

\* C8: a zero-length query is never tracked: is_tracked is false and get,
\* whole_slice and metadata return None, wherever the empty slice points.
C8_EmptyQuery ==
    \A q \in Slices :
        is_empty(q) =>
            /\ ~is_tracked(map, q)
            /\ get(map, q) = None
            /\ whole_slice(map, q) = None
            /\ metadata(map, q) = None

\* whole_slice was called with an empty slice in the interior of a tracked
\* entry and returned None.
C8_Witness ==
    /\ last.op = "whole_slice" /\ is_empty(LastData) /\ last.ret = None
    /\ \E e \in Entries(map) :
        e.data.ptr < LastData.ptr /\ LastData.ptr < e.data.ptr + e.data.len

\* C9: the tracker is append-only: a step leaves the map as it is, or it
\* removes and changes no entry and every query that resolved to (W, m)
\* resolves to the same (W, m) after it.
C9_AppendOnly ==
    [][\/ map' = map
       \/ /\ \A k \in DOMAIN map : k \in DOMAIN map' /\ map'[k] = map[k]
          /\ \A q \in Slices : get(map, q) # None => get(map', q) = get(map, q)]_vars

\* A successful insert into a tracker that already resolved a query, after
\* which three entries are tracked.
C9_Witness ==
    /\ LastIsInsert /\ last.ret = Ok(LastData)
    /\ \E q \in Slices : get(prev, q) # None /\ get(map, q) = get(prev, q)
    /\ Cardinality(DOMAIN map) = 3

\* The 0-based positions of '\n' bytes strictly before offset in bytes.
NewlinesBefore(bytes, offset) == {i \in 0..(offset - 1) : bytes[i + 1] = NL}

\* C10: compute_location returns 1-based (line, column): line is 1 + the
\* number of '\n' bytes strictly before the offset; column is offset + 1 when
\* no '\n' precedes the offset, else offset - i with i the position of the
\* nearest '\n' before the offset.
C10_LineColumn ==
    loc # NoLoc =>
        LET offset == loc.subslice.ptr - loc.data.ptr
            nl == NewlinesBefore([i \in 1..loc.data.len |-> mem[loc.data.ptr + i - 1]], offset)
        IN  /\ loc.ret[1] = 1 + Cardinality(nl)
            /\ loc.ret[2] = IF nl = {} THEN offset + 1 ELSE offset - Max(nl)

\* A sub-slice that starts on a '\n' byte of the second line, one ordinary
\* byte after the first '\n', in a whole slice not at address 0: (2, 2).
C10_Witness ==
    /\ loc # NoLoc
    /\ loc.data.ptr > 0
    /\ loc.data.len >= 3
    /\ loc.subslice.len > 0
    /\ loc.subslice.ptr = loc.data.ptr + 2
    /\ mem[loc.data.ptr] = NL
    /\ mem[loc.data.ptr + 1] = CR
    /\ mem[loc.subslice.ptr] = NL
    /\ loc.ret = <<2, 2>>

\* C11: the location at offset 0 of a whole slice is (1, 1), whatever the
\* slice holds, also when its first byte is '\n'.
C11_OffsetZero ==
    (loc # NoLoc /\ loc.subslice.ptr = loc.data.ptr) => loc.ret = <<1, 1>>

\* compute_location was called at offset 0 of a whole slice that begins with
\* two '\n' bytes.
C11_Witness ==
    /\ loc # NoLoc
    /\ loc.subslice.ptr = loc.data.ptr
    /\ loc.data.len >= 2
    /\ mem[loc.data.ptr] = NL
    /\ mem[loc.data.ptr + 1] = NL
    /\ loc.ret = <<1, 1>>

\* The locations of offsets 0..4 in b"a\r\na\n" (the bytes before offset 4
\* are b"a\r\na").
CrLfTable == <<<<1, 1>>, <<1, 2>>, <<1, 3>>, <<2, 1>>, <<2, 2>>>>

\* C12: only '\n' ends a line: the location is the same when any byte other
\* than '\n' of the whole slice is replaced by any other byte that is not
\* '\n', '\r' included; in b"a\r\na" the offsets 0..4 are at (1,1), (1,2),
\* (1,3), (2,1), (2,2).
C12_OnlyNewline ==
    loc # NoLoc =>
        /\ \A a \in DOMAIN mem : \A b \in Bytes \ {NL} :
            (/\ loc.data.ptr <= a /\ a < loc.data.ptr + loc.data.len
             /\ mem[a] # NL) =>
                compute_location_of([mem EXCEPT ![a] = b], loc.subslice, loc.data) = loc.ret
        /\ as_bytes_of(mem, loc.data) = <<LetterA, CR, NL, LetterA>> =>
            loc.ret = CrLfTable[loc.subslice.ptr - loc.data.ptr + 1]

\* compute_location was called at the '\n' of a "\r\n" pair that follows one
\* ordinary byte: the '\r' took column 2 and the '\n' is at (1, 3).
C12_Witness ==
    /\ loc # NoLoc
    /\ loc.data.len >= 3
    /\ loc.subslice.ptr = loc.data.ptr + 2
    /\ mem[loc.data.ptr] = LetterA
    /\ mem[loc.data.ptr + 1] = CR
    /\ mem[loc.data.ptr + 2] = NL
    /\ loc.ret = <<1, 3>>

\* The 1-based (line, column) of an offset into bytes, from the '\n' bytes
\* strictly before it.
LineColumn(bytes, offset) ==
    LET nl == NewlinesBefore(bytes, offset)
    IN  <<1 + Cardinality(nl), IF nl = {} THEN offset + 1 ELSE offset - Max(nl)>>

\* C13: a sub-slice of an entry ingested with insert_file(path) resolves to
\* File{path, line, column} with the path given at ingestion and the line and
\* column of the sub-slice's start offset in the whole entry, which holds the
\* bytes of the file; the result does not depend on the sub-slice's length.
C13_FileLocation ==
    /\ (last.op = "insert_file" /\ last.ret.tag = "Ok") =>
        /\ last.ret.val.ptr \in DOMAIN map
        /\ map[last.ret.val.ptr] = Entry(last.ret.val, Source_File(last.args[1]))
    /\ \A e \in Entries(map) :
        e.meta.tag = "File" =>
            /\ as_bytes_of(mem, e.data) = read_text_file(e.meta.path).data
            /\ \A q \in Slices :
                (NonEmpty(q) /\ Within(q, e.data)) =>
                    LET lc == LineColumn(as_bytes_of(mem, e.data), q.ptr - e.data.ptr)
                    IN  /\ get_source_location(map, q) =
                               Some(SourceLocation_File(
                                        FileLocation(e.meta.path, lc[1], lc[2])))
                        /\ \A q2 \in Slices :
                            (NonEmpty(q2) /\ Within(q2, e.data) /\ q2.ptr = q.ptr) =>
                                get_source_location(map, q2) = get_source_location(map, q)

\* get_source_location was called with the last byte of the entry read from
\* a.txt (b"a\na") and returned a.txt, line 2, column 1.
C13_Witness ==
    /\ last.op = "get_source_location"
    /\ LastData.len = 1
    /\ last.ret = Some(SourceLocation_File(FileLocation("a.txt", 2, 1)))

\* C14: provenance chains are not flattened: every sub-slice of an entry
\* registered with ExpandedFrom(parent) resolves to ExpandedFrom of that same
\* parent; when the parent lies in a file-backed entry, the parent resolves to
\* that entry's File provenance, and child and parent are two entries.
C14_NoFlattening ==
    \A c \in Entries(map) :
        c.meta.tag = "ExpandedFrom" =>
            /\ \A q \in Slices :
                (NonEmpty(q) /\ Within(q, c.data)) =>
                    get_source_location(map, q) =
                        Some(SourceLocation_ExpandedFrom(c.meta.ref))
            /\ \A e \in Entries(map) :
                (e.meta.tag = "File" /\ NonEmpty(c.meta.ref) /\ Within(c.meta.ref, e.data)) =>
                    /\ LET lc == LineColumn(as_bytes_of(mem, e.data),
                                             c.meta.ref.ptr - e.data.ptr)
                       IN  get_source_location(map, c.meta.ref) =
                               Some(SourceLocation_File(
                                        FileLocation(e.meta.path, lc[1], lc[2])))
                    /\ e # c
                    /\ e.data.ptr # c.data.ptr
                    /\ map[e.data.ptr] = e
                    /\ map[c.data.ptr] = c

\* get_source_location was called with a slice of a child entry whose parent
\* is a tracked file-backed entry, and returned ExpandedFrom of that parent.
C14_Witness ==
    /\ last.op = "get_source_location"
    /\ \E c, e \in Entries(map) :
        /\ c.meta.tag = "ExpandedFrom"
        /\ e.meta.tag = "File"
        /\ c.meta.ref = e.data
        /\ Within(LastData, c.data)
        /\ last.ret = Some(SourceLocation_ExpandedFrom(e.data))

EmptyFileError == IoErr("UnexpectedEof: file is empty")

\* C15: insert_file returns an error when the file cannot be read, and another
\* error, 'file is empty', when the file has no content; in both cases no
\* entry is added and the tracker is unchanged.
C15_InsertFileErrors ==
    last.op = "insert_file" =>
        LET read == read_text_file(last.args[1])
        IN  /\ ~read.ok =>
                /\ last.ret.tag = "Err"
                /\ last.ret = IoErr(read.err)
                /\ last.ret # EmptyFileError
                /\ map = prev
                /\ ~panicked
            /\ (read.ok /\ Len(read.data) = 0) =>
                /\ last.ret.tag = "Err"
                /\ last.ret = EmptyFileError
                /\ map = prev
                /\ ~panicked

\* insert_file of the empty file failed on a tracker that holds an entry, at
\* an address that is not an entry's start.
C15_Witness ==
    /\ last.op = "insert_file"
    /\ last.args[1] = "empty.txt"
    /\ last.ret = EmptyFileError
    /\ map # new
    /\ last.args[2] \notin DOMAIN map

\* C16: a successful insert of slice R with metadata m adds exactly one entry,
\* keyed by R's start and covering exactly R, leaves every entry tracked
\* before unchanged, and returns a handle with R's start and length; then
\* every non-empty sub-slice of R resolves to (R, m).
C16_InsertFrame ==
    (LastIsInsert /\ last.ret.tag = "Ok") =>
        /\ last.ret.val = LastData
        /\ LastData.ptr \notin DOMAIN prev
        /\ DOMAIN map = DOMAIN prev \cup {LastData.ptr}
        /\ map[LastData.ptr] = Entry(LastData, LastMeta)
        /\ \A k \in DOMAIN prev : map[k] = prev[k]
        /\ \A q \in Slices :
            (NonEmpty(q) /\ Within(q, LastData)) =>
                get(map, q) = Some([data |-> LastData, meta |-> LastMeta])

\* A successful insert_borrow of a slice of two bytes or more into a tracker
\* that held an entry.
C16_Witness ==
    /\ last.op = "insert_borrow" /\ last.ret.tag = "Ok"
    /\ LastData.len >= 2
    /\ prev # new

\* C17: with insert_file's buffer disjoint from every tracked entry, no
\* sequence of checked inserts and insert_file calls reaches unreachable!(),
\* and insert_file, which skips the overlap check, keeps the entries
\* non-empty, keyed by their start and pairwise disjoint, and changes none.
C17_NoFatalBranch ==
    /\ ~panicked
    /\ \A k \in DOMAIN map : NonEmpty(map[k].data) /\ map[k].data.ptr = k
    /\ \A j, k \in DOMAIN map : j # k => ~SharesByte(map[j].data, map[k].data)
    /\ (last.op = "insert_file" /\ last.ret.tag = "Ok") =>
        /\ last.ret.val.ptr \notin DOMAIN prev
        /\ \A k \in DOMAIN prev : map[k] = prev[k]

\* insert_file succeeded with a buffer that touches an entry added by a
\* checked insert.
C17_Witness ==
    /\ last.op = "insert_file" /\ last.ret.tag = "Ok"
    /\ \E e \in Entries(prev) :
        /\ e.meta.tag # "File"
        /\ (Touches(e.data, last.ret.val) \/ Touches(last.ret.val, e.data))

\* C18: when the one tracked entry R is a strict sub-slice of D, D is not
\* tracked, no slice of D that reaches outside R is tracked, every non-empty
\* sub-slice of R resolves to R, and an insert of D fails and changes nothing.
C18_PartBlocksWhole ==
    /\ \A r \in Entries(map) : \A d \in Slices :
        (Entries(map) = {r} /\ Within(r.data, d) /\ d # r.data) =>
            /\ ~is_tracked(map, d)
            /\ whole_slice(map, d) = None
            /\ \A q \in Slices :
                (NonEmpty(q) /\ Within(q, d)) =>
                    /\ ~Within(q, r.data) => ~is_tracked(map, q)
                    /\ Within(q, r.data) => whole_slice(map, q) = Some(r.data)
    /\ \A r \in Entries(prev) :
        (/\ LastIsInsert
         /\ Entries(prev) = {r}
         /\ Within(r.data, LastData) /\ LastData # r.data) =>
            last.ret = Err /\ map = prev

\* insert_borrow of a slice that extends the one tracked entry on both sides
\* failed.
C18_Witness ==
    /\ last.op = "insert_borrow" /\ last.ret = Err
    /\ \E r \in Entries(prev) :
        /\ Entries(prev) = {r}
        /\ LastData.ptr < r.data.ptr
        /\ r.data.ptr + r.data.len < LastData.ptr + LastData.len

\* C19: get_source_location returns None exactly when get returns None;
\* otherwise the owning entry's source decides the variant: Unknown gives
\* Unknown and nothing else, ExpandedFrom(p) gives ExpandedFrom of the same p,
\* File(path) gives a File location of that path.
C19_VariantBySource ==
    \A q \in Slices :
        /\ (get_source_location(map, q) = None) <=> (get(map, q) = None)
        /\ \A r \in get(map, q) : \A l \in get_source_location(map, q) :
            /\ Cardinality(get_source_location(map, q)) = 1
            /\ r.meta.tag = "Unknown" => l = [tag |-> "Unknown"]
            /\ r.meta.tag = "ExpandedFrom" =>
                   l = [tag |-> "ExpandedFrom", ref |-> r.meta.ref]
            /\ r.meta.tag = "File" =>
                   /\ l.tag = "File"
                   /\ l.file.path = r.meta.path
                   /\ DOMAIN l = {"tag", "file"}

\* get_source_location returned Unknown for a slice of an entry of unknown
\* source while a file-backed entry was tracked too.
C19_Witness ==
    /\ last.op = "get_source_location"
    /\ last.ret = Some([tag |-> "Unknown"])
    /\ \E e \in Entries(map) : e.meta.tag = "File"

\* The result the reader holds is the result of the same lookup now.
ReaderResultValid ==
    (last.op = "get" /\ last.ret # None) => get(map, last.args[1]) = last.ret

\* C20: with one writer, a lookup made while an insert is under way returns
\* the result for the tracker before that insert or the result for the tracker
\* after it, and a result a reader obtained stays valid after the insert.
C20_LookupDuringInsert ==
    /\ []ReaderResultValid
    /\ [][(/\ pending.pc # "idle"
           /\ pending' = pending
           /\ last'.op = "get") =>
              \/ last'.ret = get(pending.base, last'.args[1])
              \/ last'.ret = get(insert(pending.base, pending.data, pending.meta).map,
                                 last'.args[1])]_vars

\* A lookup made while an insert was under way returned an entry; the insert
\* has finished since, and two entries are tracked.
C20_Witness ==
    /\ last.op = "get" /\ last.during /\ last.ret # None
    /\ pending.pc = "idle"
    /\ Cardinality(DOMAIN map) = 2
    /\ map # prev

\* No two entries of m have a byte in common.
PairwiseDisjoint(m) ==
    \A j, k \in DOMAIN m : j # k => ~SharesByte(m[j].data, m[k].data)

\* The entries stored since caller w's check that share a byte with its data.
StoredSinceCheck(w) ==
    {k \in DOMAIN map \ DOMAIN pending[w].base :
        SharesByte(map[k].data, pending[w].data)}

\* C21: insert is a check (has_overlap) and then a store (insert_unsafe) with
\* nothing atomic about the pair.  Each check is passed against the tracker
\* as it was at the check.  A store that follows its check directly keeps the
\* entries disjoint; a store made after another insert, checked before either
\* store, stored an overlapping range leaves two overlapping entries in the
\* tracker or reaches the fatal branch of the duplicate start.
C21_CheckThenStore ==
    /\ [](\A w \in Writers :
            pending[w].pc = "checked" =>
                insert(pending[w].base, pending[w].data, pending[w].meta).ret.tag = "Ok")
    /\ [][\A w \in Writers :
            (pending[w].pc = "checked" /\ pending'[w].pc = "idle") =>
                LET d == pending[w].data
                IN  /\ (map = pending[w].base /\ PairwiseDisjoint(map)) =>
                            ~panicked' /\ PairwiseDisjoint(map')
                    /\ StoredSinceCheck(w) # {} =>
                        \/ panicked' /\ start_ptr(d) \in DOMAIN map
                        \/ /\ ~panicked'
                           /\ start_ptr(d) \in DOMAIN map' \ DOMAIN map
                           /\ map'[start_ptr(d)].data = d
                           /\ \A k \in StoredSinceCheck(w) :
                                /\ map'[k] = map[k]
                                /\ SharesByte(map'[k].data, map'[start_ptr(d)].data)]_vars

\* Two inserts were checked before either stored, both have stored since, and
\* the tracker holds their two entries, which have a byte in common.
C21_Witness ==
    /\ ~panicked
    /\ pending[1].pc = "idle" /\ pending[2].pc = "idle"
    /\ Cardinality(DOMAIN prev) = 1
    /\ Cardinality(DOMAIN map) = 2
    /\ ~PairwiseDisjoint(map)

\* The position of the nearest '\n' before the offset of the last call, if any.
NearestLineBreak ==
    LET offset == loc.subslice.ptr - loc.data.ptr
    IN  {i \in 0..(offset - 1) :
            /\ mem[loc.data.ptr + i] = NL
            /\ \A j \in (i + 1)..(offset - 1) : mem[loc.data.ptr + j] # NL}

\* C22: location resolution is a single backward scan of the bytes before
\* the offset: it examines each of them once, from the last to the first of
\* the whole range, and none at or after the offset; its cost is the offset,
\* whether or not a '\n' comes before the offset.
C22_ScanToStart ==
    loc # NoLoc =>
        LET offset == loc.subslice.ptr - loc.data.ptr
        IN  /\ loc.examined = Down(offset - 1, 0)
            /\ Len(loc.examined) = offset
            /\ loc.ret[1] = 1 + Cardinality({i \in 0..(offset - 1) :
                                                mem[loc.data.ptr + i] = NL})

\* C22 as stated: when a '\n' comes before the offset, only the bytes from
\* the nearest such '\n' to the offset are examined, none earlier.
C22_ScanToLineBreak ==
    loc # NoLoc =>
        \A i \in NearestLineBreak :
            \A k \in 1..Len(loc.examined) : loc.examined[k] >= i

\* A location on the third line, at offset 3 of "a\n\n.": the scan passed
\* both line breaks and examined position 0.
C22_Witness ==
    /\ loc # NoLoc
    /\ loc.data.len >= 3
    /\ loc.subslice.ptr = loc.data.ptr + 3
    /\ mem[loc.data.ptr] = LetterA
    /\ mem[loc.data.ptr + 1] = NL
    /\ mem[loc.data.ptr + 2] = NL
    /\ loc.ret = <<3, 1>>
    /\ loc.examined = <<2, 1, 0>>

\* A tracker as the checked inserts leave it: non-empty, disjoint entries.
WellFormed(m) ==
    /\ PairwiseDisjoint(m)
    /\ \A k \in DOMAIN m : NonEmpty(m[k].data)

\* The entries of the tracker before the last call that share a byte with
\* the data of the call.
Breached == {k \in DOMAIN prev : SharesByte(prev[k].data, LastData)}

\* C23: insert_unsafe is fatal exactly when the start of the new range is the
\* start of an entry.  Called on a tracker of disjoint entries with a range
\* that shares bytes with an entry and starts elsewhere, it stores the range
\* and returns it; the entries are no longer disjoint, and a query inside the
\* bytes shared resolves to the entry with the greatest start at or before
\* the start of the query.
C23_FatalOnEqualStart ==
    last.op = "insert_unsafe" =>
        /\ panicked <=> LastData.ptr \in DOMAIN prev
        /\ panicked => map = prev
        /\ (WellFormed(prev) /\ Breached # {} /\ LastData.ptr \notin DOMAIN prev) =>
            /\ ~panicked
            /\ last.ret = Ok(LastData)
            /\ DOMAIN map = DOMAIN prev \cup {LastData.ptr}
            /\ map[LastData.ptr] = Entry(LastData, LastMeta)
            /\ \A k \in DOMAIN prev : map[k] = prev[k]
            /\ ~PairwiseDisjoint(map)
            /\ \A k \in Breached : \A q \in StepSlices :
                (NonEmpty(q) /\ Within(q, LastData) /\ Within(q, prev[k].data)) =>
                    LET g == Max({j \in DOMAIN map : j <= q.ptr})
                    IN  /\ g = Max({k, LastData.ptr})
                        /\ get(map, q) = Some([data |-> map[g].data, meta |-> map[g].meta])

\* insert_unsafe stored [1, 2) in a tracker that held [0, 2) alone: a query
\* for [1, 2) now resolves to the new entry, not to the entry that held it.
C23_Witness ==
    /\ last.op = "insert_unsafe"
    /\ ~panicked
    /\ DOMAIN prev = {0}
    /\ prev[0].data = [ptr |-> 0, len |-> 2]
    /\ LastData = [ptr |-> 1, len |-> 1]
    /\ LastMeta # prev[0].meta
    /\ get(prev, LastData) = Some([data |-> prev[0].data, meta |-> prev[0].meta])
    /\ get(map, LastData) = Some([data |-> LastData, meta |-> LastMeta])

\* The orders of n requests.
Orders(n) == {p \in [1..n -> 1..n] : \A i, j \in 1..n : p[i] = p[j] => i = j}

\* The requests are for non-empty ranges with no byte in common.
DisjointRequests(requests) ==
    /\ \A i \in DOMAIN requests : NonEmpty(requests[i][1])
    /\ \A i, j \in DOMAIN requests :
        i # j => ~SharesByte(requests[i][1], requests[j][1])

\* C24: when pairwise disjoint non-empty ranges are inserted into an empty
\* tracker, every insert succeeds and the entries are those requested; made
\* in any other order the inserts succeed too and leave the same tracker, so
\* every query resolves to the same result.
C24_OrderIndependent ==
    (last.op = "inserts" /\ DisjointRequests(last.args[1])) =>
        LET requests == last.args[1]
            n == Len(requests)
        IN  /\ ~panicked
            /\ \A i \in 1..n : last.ret[i] = "Ok"
            /\ Entries(map) = {Entry(requests[i][1], requests[i][2]) : i \in 1..n}
            /\ \A p \in Orders(n) :
                LET r == inserts(new, [i \in 1..n |-> requests[p[i]]])
                IN  /\ ~r.panic
                    /\ \A i \in 1..n : r.tags[i] = "Ok"
                    /\ r.map = map
                    /\ \A q \in Slices : get(r.map, q) = get(map, q)

\* Three ranges that touch each other were inserted, the one in the middle
\* last and the one at the highest address first.
C24_Witness ==
    /\ last.op = "inserts"
    /\ Len(last.args[1]) = 3
    /\ DisjointRequests(last.args[1])
    /\ last.args[1][1][1] = [ptr |-> 2, len |-> 1]
    /\ last.args[1][2][1] = [ptr |-> 0, len |-> 1]
    /\ last.args[1][3][1] = [ptr |-> 1, len |-> 1]
    /\ last.args[1][1][2] # last.args[1][2][2]
    /\ Cardinality(DOMAIN map) = 3

=============================================================================
